---- MODULE Spec2Model ----
(***************************************************************************)
(* A model of site/server.js: the case-sensitive path cache (checkPath,    *)
(* addContents), the resolver and dispatch in handle, the type table, the *)
(* terminal calls deliver and fail, and the data handlers handle reaches.  *)
(*                                                                         *)
(* Strings are sequences of one-character strings, so that lastIndexOf,    *)
(* substring, endsWith and includes are computed as JavaScript computes    *)
(* them.  The filesystem is a fixed tree; whether it folds letter case is  *)
(* chosen at Init.  A request runs from one real I/O completion to the     *)
(* next real I/O start in one step: an await on an already settled promise *)
(* only yields to the microtask queue, which node drains before any other  *)
(* request's callback runs.                                                *)
(***************************************************************************)
EXTENDS Integers, Sequences, FiniteSets, Bags, TLC

\* ------------------------------------------------------------------ bounds
\* How many requests the server accepts in one run of the model.
MaxRequests == 3

\* F(v), with v evaluated one time however often F uses it.
Once(v, F(_)) == CHOOSE x \in {F(u) : u \in {v}} : TRUE

\* ----------------------------------------------------------------- strings
\* Words used by the code and by the site on disk, as character sequences.
Slash     == <<"/">>
IndexHtml == <<"i","n","d","e","x",".","h","t","m","l">>
WrongIdx  == <<"I","n","d","e","x",".","h","t","m","l">>
Stories   == <<"s","t","o","r","i","e","s">>
StoriesUp == <<"S","t","o","r","i","e","s">>
About     == <<"a","b","o","u","t">>
Contact   == <<"c","o","n","t","a","c","t">>
Data      == <<"d","a","t","a">>
Submit    == <<"s","u","b","m","i","t">>
Categories == <<"c","a","t","e","g","o","r","i","e","s">>
XTxt      == <<"x",".","t","x","t">>
XTxtUp    == <<"X",".","t","x","t">>
YTxt      == <<"y",".","t","x","t">>
NDoc      == <<"n",".","d","o","c">>
MDoc      == <<"m",".","d","o","c">>
XCtor     == <<"x",".","c","o","n","s","t","r","u","c","t","o","r">>

\* let root = "./public"
root == <<".","/","p","u","b","l","i","c">>

\* String.prototype.lastIndexOf(ch, fromIndex), 0-based, -1 when absent; a
\* fromIndex below 0 is taken as 0 and one beyond the end as the last index.
LastIndexOfIn(s, ch, from) ==
    LET f  == IF from < 0 THEN 0 ELSE IF from > Len(s) - 1 THEN Len(s) - 1 ELSE from
        is == {i \in 0..f : i + 1 \in DOMAIN s /\ s[i + 1] = ch}
    IN  IF is = {} THEN -1 ELSE CHOOSE i \in is : \A j \in is : j <= i

LastIndexOf(s, ch, from) ==
    Once(s, LAMBDA str : Once(from, LAMBDA f : LastIndexOfIn(str, ch, f)))

\* String.prototype.substring(a, b), 0-based, b exclusive.
Substring(s, a, b) == SubSeq(s, a + 1, b)

\* String.prototype.endsWith("/")
EndsWithSlash(s) == Len(s) > 0 /\ s[Len(s)] = "/"

\* String.prototype.includes(sub)
Includes(s, sub) ==
    Once(s, LAMBDA str :
      \E i \in 0..(Len(str) - Len(sub)) : SubSeq(str, i + 1, i + Len(sub)) = sub)

\* The letter a case-folding filesystem compares by.
LowerChar(c) ==
    CASE c = "I" -> "i"
      [] c = "S" -> "s"
      [] c = "X" -> "x"
      [] OTHER   -> c

Fold(s) == [i \in DOMAIN s |-> LowerChar(s[i])]

\* ------------------------------------------------------------- filesystem
\* The site on disk: each directory (site-relative, ending in "/") with its
\* entries in the order readdir returns them.  "site" is a set-up site,
\* "wrongIndex" a site whose index document is named Index.html, "none" a
\* machine without the root folder.
File(n) == [name |-> n, dir |-> FALSE]
Dir(n)  == [name |-> n, dir |-> TRUE]

Site ==
    { [path |-> Slash,
       entries |-> <<File(IndexHtml), Dir(Stories), Dir(About), Dir(Contact),
                     Dir(Data)>>],
      [path |-> Slash \o Stories \o Slash,
       entries |-> <<File(IndexHtml), File(XTxt), File(YTxt), File(NDoc)>>],
      [path |-> Slash \o About \o Slash,   entries |-> <<File(IndexHtml)>>],
      [path |-> Slash \o Contact \o Slash, entries |-> <<File(IndexHtml)>>],
      [path |-> Slash \o Data \o Slash,
       entries |-> <<File(IndexHtml), File(XCtor)>>] }

WrongIndex == { [path |-> Slash, entries |-> <<File(WrongIdx)>>] }

\* The set-up site without its file /stories/x.txt.
Bare ==
    { IF t.path = Slash \o Stories \o Slash
      THEN [t EXCEPT !.entries = SelectSeq(@, LAMBDA e : e.name # XTxt)]
      ELSE t : t \in Site }

Disks == {"site", "wrongIndex", "none"}

\* Two disks that differ in one file only.
Twins == {"site", "bare"}

Tree == [d \in Disks \cup Twins |->
           CASE d = "site" -> Site
             [] d = "wrongIndex" -> WrongIndex
             [] d = "bare" -> Bare
             [] OTHER -> {}]

\* Every file and folder of the disk, by its site-relative path without a
\* trailing "/" (the root folder itself is the empty path), with the
\* spelling a case-folding filesystem compares.
Nodes ==
    [d \in DOMAIN Tree |->
       LET Node(p, isDir) == [path |-> p, dir |-> isDir, folded |-> Fold(p)]
       IN  (IF Tree[d] = {} THEN {} ELSE {Node(<<>>, TRUE)}) \cup
           UNION { { Node(t.path \o t.entries[i].name, t.entries[i].dir) :
                       i \in DOMAIN t.entries } : t \in Tree[d] }]

\* A path handed to fs, without the root prefix and without a trailing "/".
Strip(full) ==
    Once(Substring(full, Len(root), Len(full)), LAMBDA rel :
      IF EndsWithSlash(rel) THEN Substring(rel, 0, Len(rel) - 1) ELSE rel)

\* The nodes a path names: the one spelled exactly so, or, on a filesystem
\* that folds case, the one spelled so up to letter case.
Found(d, foldsCase, full) ==
    Once(full, LAMBDA p :
      IF Substring(p, 0, Len(root)) # root THEN {}
      ELSE IF foldsCase
      THEN Once(Fold(Strip(p)), LAMBDA f : {n \in Nodes[d] : n.folded = f})
      ELSE Once(Strip(p), LAMBDA rel : {n \in Nodes[d] : n.path = rel}))

\* fs.access(path): resolves when the path names something.
Access(d, foldsCase, full) == Found(d, foldsCase, full) # {}

\* fs.readdir(path): the names in the folder, as the disk spells them.
Readdir(d, foldsCase, full) ==
    LET hit == {n \in Found(d, foldsCase, full) : n.dir}
    IN  IF hit = {} THEN [ok |-> FALSE, names |-> <<>>]
        ELSE LET node == CHOOSE n \in hit : TRUE
                 e    == (CHOOSE t \in Tree[d] : t.path = node.path \o Slash).entries
             IN  [ok |-> TRUE, names |-> [i \in DOMAIN e |-> e[i].name]]

\* fs.stat(path): stat.mode's folder bit (1 << 14).
Stat(d, foldsCase, full) ==
    Once(Found(d, foldsCase, full), LAMBDA hit :
      IF hit = {} THEN [ok |-> FALSE, dir |-> FALSE]
      ELSE [ok |-> TRUE, dir |-> (CHOOSE n \in hit : TRUE).dir])

\* fs.readFile(path): the bytes of the file the path names (here: which file
\* on disk they are the bytes of), or an error for a folder or nothing.
ReadFile(d, foldsCase, full) ==
    LET hit == {n \in Found(d, foldsCase, full) : ~n.dir}
    IN  IF hit = {} THEN [ok |-> FALSE, bytes |-> <<>>]
        ELSE [ok |-> TRUE, bytes |-> (CHOOSE n \in hit : TRUE).path]

\* ------------------------------------------------------------- type table
Undefined == "undefined"

\* defineTypes(): extension -> MIME type, or undefined for the extensions the
\* site refuses.
defineTypes ==
    LET T(e, m) == [ext |-> e, mime |-> m]
    IN  { T(<<"h","t","m","l">>, "application/xhtml+xml"),
          T(<<"c","s","s">>, "text/css"),
          T(<<"j","s">>, "application/javascript"),
          T(<<"m","j","s">>, "application/javascript"),
          T(<<"p","n","g">>, "image/png"),
          T(<<"g","i","f">>, "image/gif"),
          T(<<"j","p","e","g">>, "image/jpeg"),
          T(<<"j","p","g">>, "image/jpeg"),
          T(<<"s","v","g">>, "image/svg+xml"),
          T(<<"j","s","o","n">>, "application/json"),
          T(<<"p","d","f">>, "application/pdf"),
          T(<<"t","x","t">>, "text/plain"),
          T(<<"t","t","f">>, "application/x-font-ttf"),
          T(<<"w","o","f","f">>, "application/font-woff"),
          T(<<"a","a","c">>, "audio/aac"),
          T(<<"m","p","3">>, "audio/mpeg"),
          T(<<"m","p","4">>, "video/mp4"),
          T(<<"w","e","b","m">>, "video/webm"),
          T(<<"i","c","o">>, "image/x-icon"),
          T(<<"x","h","t","m","l">>, Undefined),
          T(<<"h","t","m">>, Undefined),
          T(<<"r","a","r">>, Undefined),
          T(<<"d","o","c">>, Undefined),
          T(<<"d","o","c","x">>, Undefined) }

\* The extensions the table holds with no type.
Refused == {t.ext : t \in {u \in defineTypes : u.mime = Undefined}}

\* A lookup that falls back to a default type for an entry without one.
LookupDefault(table, extension) ==
    LET hit == {t \in table : t.ext = extension}
    IN  IF hit = {} THEN Undefined ELSE "application/octet-stream"

\* What a plain object inherits from Object.prototype: a lookup of one of
\* these keys in an object that has no such key of its own finds a function
\* (or, for __proto__, the prototype), never undefined.
Constructor == <<"c","o","n","s","t","r","u","c","t","o","r">>
ToStringKey == <<"t","o","S","t","r","i","n","g">>
ValueOfKey  == <<"v","a","l","u","e","O","f">>
ProtoKey    == <<"_","_","p","r","o","t","o","_","_">>

ObjectPrototype ==
    { [ext |-> Constructor, mime |-> "function Object() { [native code] }"],
      [ext |-> ToStringKey, mime |-> "function toString() { [native code] }"],
      [ext |-> ValueOfKey,  mime |-> "function valueOf() { [native code] }"],
      [ext |-> ProtoKey,    mime |-> "[object Object]"] }

\* types[extension]: the value of the table's own entry; for a key the table
\* does not hold, what the object inherits under that key, or else undefined.
Lookup(table, extension) ==
    Once(extension, LAMBDA e :
      Once({t \in table : t.ext = e}, LAMBDA hit :
        IF hit # {} THEN (CHOOSE t \in hit : TRUE).mime
        ELSE Once({t \in ObjectPrototype : t.ext = e}, LAMBDA up :
               IF up = {} THEN Undefined ELSE (CHOOSE t \in up : TRUE).mime)))

\* The extension findType derives: the text after the last ".".
Extension(url) == Substring(url, LastIndexOf(url, ".", Len(url) - 1) + 1, Len(url))

\* findType(url)
findType(table, url) == Lookup(table, Extension(url))

\* ---------------------------------------------------------------- delivery
OK       == 200
NotFound == 404
BadType  == 415
Error    == 500

\* A response nothing was written to.
NewResponse ==
    [head |-> 0, code |-> 0, ctype |-> "", body |-> <<>>, ended |-> FALSE,
     terminal |-> 0, late |-> 0]

\* response.writeHead, response.write and response.end; a call on a response
\* whose head was sent, or that has ended, is counted in late.
WriteHead(resp, code, type) ==
    IF resp.head > 0 \/ resp.ended THEN [resp EXCEPT !.late = @ + 1]
    ELSE [resp EXCEPT !.head = 1, !.code = code, !.ctype = type]

Write(resp, chunk) ==
    IF resp.ended THEN [resp EXCEPT !.late = @ + 1]
    ELSE [resp EXCEPT !.body = Append(@, chunk)]

End(resp) ==
    IF resp.ended THEN [resp EXCEPT !.late = @ + 1]
    ELSE [resp EXCEPT !.ended = TRUE]

\* What a body is made of: a text, or the bytes of a file on disk, as read
\* or as rewritten by handle_file.
Text(t)           == [text |-> t, file |-> <<>>, rewritten |-> FALSE, query |-> <<>>]
Bytes(f)          == [text |-> "", file |-> f, rewritten |-> FALSE, query |-> <<>>]
Rewritten(f, q)   == [text |-> "", file |-> f, rewritten |-> TRUE, query |-> q]

\* deliver(response, type, content)
deliver(resp, type, content) ==
    End(Write(WriteHead([resp EXCEPT !.terminal = @ + 1], OK, type), content))

\* fail(response, code, text)
fail(resp, code, text) ==
    End(Write(WriteHead([resp EXCEPT !.terminal = @ + 1], code, "text/plain"),
              Text(text)))

\* ------------------------------------------------------------------- state
VARIABLES
    phase,         \* start(): "booting", then "listening", "exited", or "crashed"
    disk,          \* which site is on disk
    folds,         \* whether the filesystem folds letter case
    stories_list,  \* let stories_list
    types,         \* let types: the table defineTypes built, {} before start
    paths,         \* let paths: the cache of url paths, {} before start
    slot,          \* the requests in flight: each one's locals and position
    started,       \* how many requests have arrived
    listings,      \* how often fs.readdir has listed each folder
    observed       \* what fs.readdir and fs.stat have returned so far

vars == <<phase, disk, folds, stories_list, types, paths, slot, started,
          listings, observed>>

\* The requests the server handles at the same time.
Slots == {1, 2}

NoIo == [stat |-> 0, readFile |-> 0]

\* A slot no request occupies.  Of a request in a slot, io counts the fs.stat
\* and fs.readFile calls made for it, listed holds the folders fs.readdir was
\* called on for it, and hit tells whether its path was a member of the cache
\* when it arrived.
Idle ==
    [pc |-> "idle", method |-> "", raw |-> <<>>, form |-> "", url |-> <<>>,
     params |-> <<>>, frames |-> <<>>, folder |-> <<>>, names |-> <<>>,
     resolved |-> "none", type |-> Undefined, handler |-> "none",
     resp |-> NewResponse, io |-> NoIo, listed |-> <<>>, hit |-> FALSE]

\* ---------------------------------------------------------------- checkPath
\* let n = path.lastIndexOf("/", path.length - 2);
\* let parent = path.substring(0, n + 1);
Parent(path) == Substring(path, 0, LastIndexOf(path, "/", Len(path) - 2) + 1)

\* checkPath without its fast path: the parent is checked and listed for a
\* path that is a member already.
DescendAlways(path, cache) ==
    IF path = Slash \/ Parent(path) = path THEN [overflow |-> FALSE, frames |-> <<>>]
    ELSE [overflow |-> FALSE, frames |-> <<path>>]

\* The calls of checkPath that find their path missing from the cache, made
\* one inside the other before any of them awaits: the frames left pending,
\* innermost (nearest the root) first.  A path that is its own parent and is
\* no member recurses until the call stack overflows.
RECURSIVE Descend(_, _)
Descend(path, cache) ==
    IF path \in cache THEN [overflow |-> FALSE, frames |-> <<>>]
    ELSE IF Parent(path) = path THEN [overflow |-> TRUE, frames |-> <<>>]
    ELSE Once(Parent(path), LAMBDA parent :
           Once(Descend(parent, cache), LAMBDA inner :
             [overflow |-> inner.overflow, frames |-> inner.frames \o <<path>>]))

\* checkPath returning its parent's answer (`return ok`) in place of
\* paths.has(path).
RECURSIVE UnwindTrusting(_, _)
UnwindTrusting(frames, cache) ==
    LET rest == Tail(frames)
    IN  IF rest = <<>> THEN [done |-> TRUE, ok |-> TRUE, frames |-> <<>>, folder |-> <<>>]
        ELSE [done |-> FALSE, ok |-> TRUE, frames |-> rest, folder |-> Parent(rest[1])]

\* checkPath listing the parent only while the path is still missing when
\* the parent's check returns (`if (ok && !paths.has(path))`).
RECURSIVE UnwindSkipping(_, _)
UnwindSkipping(frames, cache) ==
    LET has  == frames[1] \in cache
        rest == Tail(frames)
    IN  IF rest = <<>> THEN [done |-> TRUE, ok |-> has, frames |-> <<>>, folder |-> <<>>]
        ELSE IF has /\ rest[1] \notin cache
        THEN [done |-> FALSE, ok |-> TRUE, frames |-> rest, folder |-> Parent(rest[1])]
        ELSE UnwindSkipping(rest, cache)

\* The returns of checkPath once addContents(parent) of the innermost frame
\* has finished: each frame returns paths.has(path); its caller lists the
\* folder when that is true and returns its own paths.has(path) otherwise.
RECURSIVE Unwind(_, _)
Unwind(frames, cache) ==
    LET has  == frames[1] \in cache
        rest == Tail(frames)
    IN  IF rest = <<>> THEN [done |-> TRUE, ok |-> has, frames |-> <<>>, folder |-> <<>>]
        ELSE IF has THEN [done |-> FALSE, ok |-> TRUE, frames |-> rest,
                          folder |-> Parent(rest[1])]
        ELSE Once(rest, LAMBDA outer : Unwind(outer, cache))

\* addContents normalising the case of the names it adds.
EntryPathFolded(folder, name, isDir) ==
    folder \o Fold(name) \o (IF isDir THEN Slash ELSE <<>>)

\* addContents appending "/" to every name, files included.
EntryPathAllSlash(folder, name, isDir) == folder \o name \o Slash

\* addContents adding folders without the trailing "/".
EntryPathNoSlash(folder, name, isDir) == folder \o name

\* let path = folder + name; if ((stat.mode & folderBit) != 0) path = path + "/";
EntryPath(folder, name, isDir) ==
    folder \o name \o (IF isDir THEN Slash ELSE <<>>)

\* An insertion that takes out a path that is a member already.
AddPathToggle(cache, path) ==
    IF path \in cache THEN cache \ {path} ELSE cache \cup {path}

\* The cache rebuilt from the root on every insertion.
AddPathFresh(cache, path) == {Slash, path}

\* paths.add(path)
AddPath(cache, path) == cache \cup {path}

\* ------------------------------------------------------------ data handlers
\* A field of a parsed form body: absent, or a text of some length that may
\* hold a banned SQL word and may have the shape of an e-mail address.
NoField       == [present |-> FALSE, length |-> 0, sql |-> FALSE, email |-> FALSE]
Field(n)      == [present |-> TRUE, length |-> n, sql |-> FALSE, email |-> FALSE]
Address(n)    == [present |-> TRUE, length |-> n, sql |-> FALSE, email |-> TRUE]

\* qs.parse(content) for the bodies a client posts.
Parse(form) ==
    CASE form = "good"  -> [name |-> Field(5), email |-> Address(7),
                            subject |-> Field(10), message |-> Field(20)]
      [] form = "short" -> [name |-> Field(4), email |-> Address(7),
                            subject |-> Field(10), message |-> Field(20)]
      [] OTHER          -> [name |-> Field(5), email |-> NoField,
                            subject |-> Field(10), message |-> Field(20)]

Forms == {"good", "short", "partial"}

\* verify_content_length(content, minLength, maxLength)
verify_content_length(f, minLength, maxLength) ==
    f.length >= minLength /\ f.length <= maxLength

\* validate_post_content(content): content.length and content.includes throw a
\* TypeError on a field the body does not have.
validate_post_content(c) ==
    IF ~(c.name.present /\ c.email.present /\ c.subject.present /\ c.message.present)
    THEN [throws |-> TRUE, ok |-> FALSE]
    ELSE [throws |-> FALSE,
          ok |-> /\ verify_content_length(c.name, 5, 50)
                 /\ verify_content_length(c.email, 7, 50)
                 /\ verify_content_length(c.subject, 10, 50)
                 /\ verify_content_length(c.message, 20, 280)
                 /\ c.email.email
                 /\ ~c.name.sql /\ ~c.email.sql /\ ~c.subject.sql /\ ~c.message.sql]

ContactIndex == Slash \o Contact \o Slash \o IndexHtml

\* A request answered: its position once a terminal call was made.
Answered(s, resp) == [s EXCEPT !.resp = resp, !.pc = "done"]

\* handle_post(response, request, params, url), up to registering the
\* request's 'data' and 'end' listeners.
handle_post(s) ==
    IF s.url # ContactIndex \/ s.params # Submit
    THEN Answered([s EXCEPT !.handler = "handle_post"],
                  fail(s.resp, BadType, "Bad URL format."))
    ELSE [s EXCEPT !.handler = "handle_post", !.pc = "body"]

\* handle_get with the `break` after get_categories(response) missing: the
\* switch falls through to get_categories_data and to the default's fail.
handle_getFallthrough(s) ==
    LET key == s.url \o <<"?">> \o s.params
        t   == [s EXCEPT !.handler = "handle_get"]
    IN  CASE key = Slash \o IndexHtml \o <<"?">> \o Stories ->
               Answered(t, deliver(s.resp, "text/plain", Text("stories_list")))
          [] key = Slash \o About \o Slash \o IndexHtml \o <<"?">> \o Categories ->
               [t EXCEPT !.handler = "get_categories", !.pc = "db",
                         !.resp = fail(s.resp, BadType, "Bad URL format.")]
          [] key = Slash \o Data \o Slash \o IndexHtml \o <<"?">> \o Categories ->
               [t EXCEPT !.handler = "get_categories_data", !.pc = "db"]
          [] OTHER ->
               Answered(t, fail(s.resp, BadType, "Bad URL format."))

\* handle_get(response, request, params, url): the switch on url + '?' + params.
handle_get(s) ==
    LET key == s.url \o <<"?">> \o s.params
        t   == [s EXCEPT !.handler = "handle_get"]
    IN  CASE key = Slash \o IndexHtml \o <<"?">> \o Stories ->
               Answered(t, deliver(s.resp, "text/plain", Text("stories_list")))
          [] key = Slash \o About \o Slash \o IndexHtml \o <<"?">> \o Categories ->
               [t EXCEPT !.handler = "get_categories", !.pc = "db"]
          [] key = Slash \o Data \o Slash \o IndexHtml \o <<"?">> \o Categories ->
               [t EXCEPT !.handler = "get_categories_data", !.pc = "db"]
          [] OTHER ->
               Answered(t, fail(s.resp, BadType, "Bad URL format."))

\* ------------------------------------------------------------------ handle
\* let params_loc = url.lastIndexOf("?"); the url and the params it splits.
SplitUrl(raw) ==
    LET params_loc == LastIndexOf(raw, "?", Len(raw) - 1)
    IN  IF params_loc # -1
        THEN [url |-> Substring(raw, 0, params_loc),
              params |-> Substring(raw, params_loc + 1, Len(raw))]
        ELSE [url |-> raw, params |-> <<>>]

\* if (url.endsWith("/")) url = url + "index.html";
WithIndex(url) == IF EndsWithSlash(url) THEN url \o IndexHtml ELSE url

\* The folder a listing starts on: fs.readdir(root + folder) is called.
StartList(s, frames, folder) ==
    [s EXCEPT !.pc = "readdir", !.frames = frames, !.folder = folder,
              !.names = <<>>, !.listed = Append(@, folder)]

\* The dispatch of handle without its test for "stories" in the path.
DispatchAnyGet(s) ==
    IF s.method = "POST" /\ s.params # <<>> THEN handle_post(s)
    ELSE IF s.method = "GET" /\ s.params # <<>> THEN handle_get(s)
    ELSE [s EXCEPT !.handler = "file", !.pc = "readFile", !.io.readFile = @ + 1]

\* The dispatch of handle, once the path resolved and has a type.
Dispatch(s) ==
    IF s.method = "POST" /\ s.params # <<>> THEN handle_post(s)
    ELSE IF s.method = "GET" /\ s.params # <<>> /\ ~Includes(s.url, Stories)
    THEN handle_get(s)
    ELSE [s EXCEPT !.handler = "file", !.pc = "readFile", !.io.readFile = @ + 1]

\* handle telling the client of a missing path whether the filesystem finds
\* a file under that name.
AfterCheckTelling(s, ok, table) ==
    IF ~ok
    THEN Answered([s EXCEPT !.resolved = "NotFound"],
                  fail(s.resp, NotFound,
                       IF Access(disk, folds, root \o s.url)
                       THEN "URL not found (check case)" ELSE "URL not found"))
    ELSE Once(findType(table, s.url), LAMBDA type :
           IF type = Undefined
           THEN Answered([s EXCEPT !.resolved = "UnsupportedType"],
                         fail(s.resp, BadType, "File type not supported"))
           ELSE Dispatch([s EXCEPT !.resolved = "Deliverable", !.type = type]))

\* handle after `let ok = await checkPath(url)`.
AfterCheck(s, ok, table) ==
    IF ~ok
    THEN Answered([s EXCEPT !.resolved = "NotFound"],
                  fail(s.resp, NotFound, "URL not found (check case)"))
    ELSE Once(findType(table, s.url), LAMBDA type :
           IF type = Undefined
           THEN Answered([s EXCEPT !.resolved = "UnsupportedType"],
                         fail(s.resp, BadType, "File type not supported"))
           ELSE Dispatch([s EXCEPT !.resolved = "Deliverable", !.type = type]))

\* checkPath after `await addContents(parent)` in its innermost pending call.
AfterAdd(s, cache, table) ==
    Once(Unwind(s.frames, cache), LAMBDA u :
      IF u.done
      THEN AfterCheck([s EXCEPT !.frames = <<>>, !.folder = <<>>, !.names = <<>>],
                      u.ok, table)
      ELSE StartList(s, u.frames, u.folder))

\* checkPath(url) from its call in handle up to its first fs call or its return.
CheckPath(s, cache, table) ==
    Once(Descend(s.url, cache), LAMBDA d :
      IF d.overflow THEN [s EXCEPT !.pc = "rejected", !.resolved = "RangeError"]
      ELSE IF d.frames = <<>> THEN AfterCheck(s, s.url \in cache, table)
      ELSE StartList(s, d.frames, Parent(d.frames[1])))

\* The folders whose listing began in the step from s to t.
Listed(s, t) ==
    IF Len(t.listed) > Len(s.listed) THEN SetToBag({t.folder}) ELSE EmptyBag

\* -------------------------------------------------------------- handle_file
Public == <<"p","u","b","l","i","c">>
Xhtml  == "application/xhtml+xml"

\* file.match("/[^/]*/(?!.*/)")[0].slice(1, -1): the folder the file is in.
Page(file) ==
    LET n == LastIndexOf(file, "/", Len(file) - 1)
        m == LastIndexOf(file, "/", n - 1)
    IN  Substring(file, m + 1, n)

\* Whether handle_file reads the navbar and footer (add_header_and_footer).
NeedsFrame(file, type) == type = Xhtml /\ Page(file) # Public

\* String.prototype.split(ch): the pieces between the occurrences of ch.
RECURSIVE Split(_, _)
Split(s, ch) ==
    LET is == {i \in DOMAIN s : s[i] = ch}
    IN  IF is = {} THEN <<s>>
        ELSE LET i == CHOOSE k \in is : \A j \in is : k <= j
             IN  <<SubSeq(s, 1, i - 1)>> \o Split(SubSeq(s, i + 1, Len(s)), ch)

\* var param_dict = params.split("&").reduce(...): the keys it gets, and the
\* value under the key "s" (the last one given; not given without an "=").
ParamKeys(params) ==
    LET parts == Split(params, "&")
    IN  {Split(parts[i], "=")[1] : i \in DOMAIN parts}

ParamS(params) ==
    LET parts == Split(params, "&")
        is    == {i \in DOMAIN parts : Split(parts[i], "=")[1] = <<"s">>}
    IN  IF is = {} THEN [given |-> FALSE, text |-> <<>>]
        ELSE LET x == Split(parts[CHOOSE k \in is : \A j \in is : j <= k], "=")
             IN  IF Len(x) > 1 THEN [given |-> TRUE, text |-> x[2]]
                 ELSE [given |-> FALSE, text |-> <<>>]

OneEarth      == <<"o","n","e","_","e","a","r","t","h">>
PassageOfTime == <<"t","h","e","_","p","a","s","s","a","g","e","_","o","f","_",
                   "t","i","m","e">>

\* handle_file rewriting a file of whatever type.
handle_fileAnyType(content, file, type, params) ==
    [content |-> Rewritten(content, params), type |-> type, db |-> FALSE]

\* handle_file(content, file, type, params): [content, type], and whether
\* handle_the_passage_of_time is awaited for them.  Only a document of type
\* application/xhtml+xml is rewritten; one in a folder named stories, asked
\* for with more than one parameter, is replaced as the parameter s says.
handle_file(content, file, type, params) ==
    IF type = Xhtml
    THEN IF Page(file) = Stories /\ Cardinality(ParamKeys(params)) > 1
         THEN CASE ParamS(params) = [given |-> TRUE, text |-> OneEarth] ->
                     [content |-> Text("One Earth"), type |-> type, db |-> FALSE]
                [] ParamS(params) = [given |-> TRUE, text |-> PassageOfTime] ->
                     [content |-> Text("the_passage_of_time"),
                      type |-> "application/json", db |-> TRUE]
                [] OTHER ->
                     [content |-> Rewritten(content, params), type |-> type,
                      db |-> FALSE]
         ELSE [content |-> Rewritten(content, params), type |-> type, db |-> FALSE]
    ELSE [content |-> Bytes(content), type |-> type, db |-> FALSE]

\* --------------------------------------------------------------- requests
Req(m, raw, form) == [method |-> m, raw |-> raw, form |-> form]

StoriesDir == Slash \o Stories \o Slash
Q(query)   == <<"?">> \o query

\* The requests for files clients send: found, missing, wrongly cased,
\* of a refused type, with a query, and one that is no path.
FileRequests ==
    { Req("GET", Slash, ""),
      Req("GET", StoriesDir \o XTxt, ""),
      Req("GET", StoriesDir \o YTxt, ""),
      Req("GET", Slash \o StoriesUp \o Slash \o XTxt, ""),
      Req("GET", StoriesDir \o XTxtUp, ""),
      Req("GET", StoriesDir \o NDoc, ""),
      Req("GET", StoriesDir \o MDoc, ""),
      Req("GET", StoriesDir \o XTxt \o Q(<<"q">>), ""),
      Req("GET", StoriesDir \o XTxt \o Slash, ""),
      Req("OPTIONS", <<"*">>, "") }

\* The requests for the data handlers, and for a document handle_file frames.
DataRequests ==
    { Req("GET", Slash \o About \o Slash, ""),
      Req("GET", Slash \o Q(Stories), ""),
      Req("GET", Slash \o About \o Slash \o Q(Categories), ""),
      Req("GET", Slash \o Data \o Slash \o Q(Categories), ""),
      Req("GET", Slash \o Contact \o Slash \o Q(Submit), ""),
      Req("POST", Slash \o About \o Slash \o Q(Submit), "good"),
      Req("POST", Slash \o About \o Slash, "good"),
      Req("PUT", Slash \o Contact \o Slash \o Q(Submit), "good"),
      Req("POST", Slash \o StoriesUp \o Slash \o XTxt \o Q(Submit), "good"),
      Req("GET", Slash \o About \o Slash \o MDoc \o Q(Categories), ""),
      Req("POST", StoriesDir \o NDoc \o Q(Submit), "good"),
      Req("GET", StoriesDir, ""),
      Req("GET", StoriesDir \o Q(<<"s","=">> \o OneEarth), ""),
      Req("GET", StoriesDir \o Q(<<"s","=">> \o OneEarth \o <<"&","a","=","b">>), ""),
      Req("GET", StoriesDir \o Q(<<"s","=">> \o PassageOfTime \o <<"&","a","=","b">>), ""),
      Req("GET", Slash \o Data \o Slash \o XCtor, ""),
      Req("GET", Slash \o Data \o Slash \o XCtor \o Q(Categories), "") } \cup
    { Req("POST", Slash \o Contact \o Slash \o Q(Submit), f) : f \in Forms }

Requests == FileRequests \cup DataRequests

\* ------------------------------------------------------------------ actions
Init ==
    /\ phase = "booting"
    /\ disk \in Disks
    /\ folds \in BOOLEAN
    /\ stories_list = <<>>
    /\ types = {}
    /\ paths = {}
    /\ slot = [r \in Slots |-> Idle]
    /\ started = 0
    /\ listings = EmptyBag
    /\ observed = {}

\* start() without its checks of the stories list, the root folder and the
\* index document.
StartUnchecked ==
    /\ phase = "booting"
    /\ \E loaded \in {<<>>, <<"One Earth">>} :
         /\ stories_list' = loaded
         /\ types' = defineTypes
         /\ paths' = AddPath({}, Slash)
         /\ phase' = "listening"
    /\ UNCHANGED <<disk, folds, slot, started, listings, observed>>

\* start(): load the stories, check the site, build the table, seed the cache
\* and listen; log and exit on any failure.
Start ==
    /\ phase = "booting"
    /\ \E loaded \in {<<>>, <<"One Earth">>} :
         /\ stories_list' = loaded
         /\ IF /\ loaded # <<>>
               /\ Access(disk, folds, root)
               /\ Access(disk, folds, root \o Slash \o IndexHtml)
            THEN /\ types' = defineTypes
                 /\ paths' = AddPath({}, Slash)
                 /\ phase' = "listening"
            ELSE /\ phase' = "exited"
                 /\ UNCHANGED <<types, paths>>
    /\ UNCHANGED <<disk, folds, slot, started, listings, observed>>

\* handle(request, response), from the request's arrival to its first fs call
\* or its answer.
Handle(r, requests) ==
    /\ phase = "listening"
    /\ slot[r].pc = "idle"
    /\ started < MaxRequests
    /\ \E q \in requests :
       \E u \in {SplitUrl(q.raw)} :
       \E s \in {[Idle EXCEPT !.method = q.method, !.raw = q.raw, !.form = q.form,
                              !.url = WithIndex(u.url), !.params = u.params,
                              !.hit = WithIndex(u.url) \in paths]} :
       \E t \in {CheckPath(s, paths, types)} :
         /\ slot' = [slot EXCEPT ![r] = t]
         /\ listings' = listings (+) Listed(Idle, t)
    /\ started' = started + 1
    /\ UNCHANGED <<phase, disk, folds, stories_list, types, paths, observed>>

\* addContents: fs.readdir(root + folder) answers; the first name is stat'ed.
ReaddirDone(r) ==
    /\ phase = "listening"
    /\ slot[r].pc = "readdir"
    /\ \E s \in {slot[r]} :
       \E res \in {Readdir(disk, folds, root \o s.folder)} :
       \E t \in {IF ~res.ok THEN [s EXCEPT !.pc = "rejected"]
                 ELSE IF res.names = <<>> THEN AfterAdd(s, paths, types)
                 ELSE [s EXCEPT !.pc = "stat", !.names = res.names]} :
         /\ slot' = [slot EXCEPT ![r] = t]
         /\ listings' = listings (+) Listed(s, t)
    /\ UNCHANGED <<phase, disk, folds, stories_list, types, paths, started,
                   observed>>

\* addContents: fs.stat(root + path) answers; the path is added, and the next
\* name is stat'ed or addContents returns into checkPath.
StatDone(r) ==
    /\ phase = "listening"
    /\ slot[r].pc = "stat"
    /\ \E s \in {slot[r]} :
       \E name \in {Head(s.names)} :
       \E st \in {Stat(disk, folds, root \o s.folder \o name)} :
       \E cache \in {AddPath(paths, EntryPath(s.folder, name, st.dir))} :
       \E s1 \in {[s EXCEPT !.names = Tail(@), !.io.stat = @ + 1]} :
       \E t \in {IF ~st.ok THEN [s1 EXCEPT !.pc = "rejected"]
                 ELSE IF s1.names = <<>> THEN AfterAdd(s1, cache, types)
                 ELSE s1} :
         /\ slot' = [slot EXCEPT ![r] = t]
         /\ paths' = IF st.ok THEN cache ELSE paths
         /\ observed' = IF st.ok
                        THEN observed \cup {[folder |-> s.folder, name |-> name,
                                             dir |-> st.dir]}
                        ELSE observed
         /\ listings' = listings (+) Listed(s, t)
    /\ UNCHANGED <<phase, disk, folds, stories_list, types, started>>

\* handle: fs.readFile(file) answers; handle_file runs up to its first read of
\* the navbar, or to its end, and the file is delivered.
ReadFileDone(r) ==
    /\ phase = "listening"
    /\ slot[r].pc = "readFile"
    /\ \E s \in {slot[r]} :
       \E file \in {root \o s.url} :
       \E res \in {ReadFile(disk, folds, file)} :
       \E out \in {handle_file(res.bytes, file, s.type, s.params)} :
         slot' = [slot EXCEPT ![r] =
                    IF ~res.ok THEN [s EXCEPT !.pc = "rejected"]
                    ELSE IF NeedsFrame(file, s.type) THEN [s EXCEPT !.pc = "transform"]
                    ELSE Answered(s, deliver(s.resp, out.type, out.content))]
    /\ UNCHANGED <<phase, disk, folds, stories_list, types, paths, started,
                   listings, observed>>

\* handle_file: add_header_and_footer's reads of public/page_navbar.html and
\* public/page_footer.html answer, or one of them fails and handle rejects.
TransformDone(r) ==
    /\ phase = "listening"
    /\ slot[r].pc = "transform"
    /\ \E s \in {slot[r]} :
       \E file \in {root \o s.url} :
       \E out \in {handle_file(ReadFile(disk, folds, file).bytes, file, s.type,
                               s.params)} :
       \E ok \in BOOLEAN :
         slot' = [slot EXCEPT ![r] =
                    IF ~ok THEN [s EXCEPT !.pc = "rejected"]
                    ELSE IF out.db THEN [s EXCEPT !.pc = "story"]
                    ELSE Answered(s, deliver(s.resp, out.type, out.content))]
    /\ UNCHANGED <<phase, disk, folds, stories_list, types, paths, started,
                   listings, observed>>

\* handle_file: handle_the_passage_of_time's queries answer and the JSON text
\* is delivered; or they throw, it returns the object {"ERROR" : "FAIL"},
\* Buffer.from throws a TypeError for it and handle rejects.
StoryDone(r) ==
    /\ phase = "listening"
    /\ slot[r].pc = "story"
    /\ \E s \in {slot[r]} :
       \E file \in {root \o s.url} :
       \E out \in {handle_file(ReadFile(disk, folds, file).bytes, file, s.type,
                               s.params)} :
       \E ok \in BOOLEAN :
         slot' = [slot EXCEPT ![r] =
                    IF ok THEN Answered(s, deliver(s.resp, out.type, out.content))
                    ELSE [s EXCEPT !.pc = "rejected"]]
    /\ UNCHANGED <<phase, disk, folds, stories_list, types, paths, started,
                   listings, observed>>

\* handle_post's 'end' listener: parse and validate the body, then answer
\* "Bad form input." or start insert_message_into_db.  A TypeError thrown in
\* the listener is an uncaught exception: the process ends.
EndEvent(r) ==
    LET s == slot[r]
        v == validate_post_content(Parse(s.form))
    IN  /\ phase = "listening"
        /\ s.pc = "body"
        /\ IF v.throws
           THEN /\ phase' = "crashed"
                /\ UNCHANGED slot
           ELSE /\ UNCHANGED phase
                /\ slot' = [slot EXCEPT ![r] =
                     IF ~v.ok THEN Answered(s, fail(s.resp, BadType, "Bad form input."))
                     ELSE [s EXCEPT !.handler = "insert_message_into_db", !.pc = "db"]]
        /\ UNCHANGED <<disk, folds, stories_list, types, paths, started, listings,
                       observed>>

\* insert_message_into_db, get_categories and get_categories_data: the
\* database answers, or throws inside the try block.
DbDone(r) ==
    LET s == slot[r]
        good == CASE s.handler = "get_categories" ->
                       deliver(s.resp, "application/json", Text("categories"))
                  [] s.handler = "get_categories_data" ->
                       deliver(s.resp, "text/plain", Text("categories"))
                  [] OTHER -> deliver(s.resp, "text/plain", Text(""))
    IN  /\ phase = "listening"
        /\ s.pc = "db"
        /\ \E ok \in BOOLEAN :
             slot' = [slot EXCEPT ![r] =
                        IF ok THEN Answered(s, good)
                        ELSE Answered(s, fail(s.resp, Error, "Database error."))]
        /\ UNCHANGED <<phase, disk, folds, stories_list, types, paths, started,
                       listings, observed>>

\* A request that was answered, or whose handler rejected, leaves; its slot
\* takes the next request.
Leave(r) ==
    /\ phase = "listening"
    /\ slot[r].pc \in {"done", "rejected"}
    /\ slot' = [slot EXCEPT ![r] = Idle]
    /\ UNCHANGED <<phase, disk, folds, stories_list, types, paths, started,
                   listings, observed>>

\* The server under concurrent requests for files: the path cache at work.
Next ==
    \/ Start
    \/ \E r \in Slots : Handle(r, FileRequests)
    \/ \E r \in Slots : ReaddirDone(r)
    \/ \E r \in Slots : StatDone(r)
    \/ \E r \in Slots : ReadFileDone(r)
    \/ \E r \in Slots : Leave(r)

Spec == Init /\ [][Next]_vars

\* The server under one request after the other, of every kind: the dispatch
\* and the data handlers at work.
DispatchNext ==
    \/ Start
    \/ Handle(1, Requests)
    \/ ReaddirDone(1)
    \/ StatDone(1)
    \/ ReadFileDone(1)
    \/ TransformDone(1)
    \/ StoryDone(1)
    \/ EndEvent(1)
    \/ DbDone(1)
    \/ Leave(1)

DispatchSpec == Init /\ [][DispatchNext]_vars

\* The requests that resolution is followed to its end for.
LiveRequests ==
    { Req("GET", Slash, ""),
      Req("GET", StoriesDir \o XTxt, ""),
      Req("GET", StoriesDir \o YTxt, ""),
      Req("GET", StoriesDir \o NDoc, ""),
      Req("GET", Slash \o StoriesUp \o Slash \o XTxt, "") }

LiveNext ==
    \/ Start
    \/ \E r \in Slots : Handle(r, LiveRequests)
    \/ \E r \in Slots : ReaddirDone(r)
    \/ \E r \in Slots : StatDone(r)
    \/ \E r \in Slots : ReadFileDone(r)
    \/ \E r \in Slots : Leave(r)

\* Every request's I/O answers in the end: the filesystem does not hang.
FairSpec ==
    /\ Init /\ [][LiveNext]_vars
    /\ \A r \in Slots : /\ WF_vars(ReaddirDone(r))
                        /\ WF_vars(StatDone(r))
                        /\ WF_vars(ReadFileDone(r))

\* The server on one of two disks that differ in one file, under requests
\* for that file's path in another case, for the file and for the root.
TwinRequests ==
    { Req("GET", Slash, ""),
      Req("GET", StoriesDir \o XTxt, ""),
      Req("GET", StoriesDir \o XTxtUp, "") }

TwinInit ==
    /\ phase = "booting"
    /\ disk \in Twins
    /\ folds \in BOOLEAN
    /\ stories_list = <<>>
    /\ types = {}
    /\ paths = {}
    /\ slot = [r \in Slots |-> Idle]
    /\ started = 0
    /\ listings = EmptyBag
    /\ observed = {}

TwinNext ==
    \/ Start
    \/ \E r \in Slots : Handle(r, TwinRequests)
    \/ \E r \in Slots : ReaddirDone(r)
    \/ \E r \in Slots : StatDone(r)
    \/ \E r \in Slots : ReadFileDone(r)
    \/ \E r \in Slots : Leave(r)

TwinSpec == TwinInit /\ [][TwinNext]_vars

\* ------------------------------------------------------------------ claims
\* The paths of the files on disk, spelled as the disk spells them.
FilesOf == [d \in DOMAIN Tree |-> {n.path : n \in {m \in Nodes[d] : ~m.dir}}]

ExactFiles == FilesOf[disk]

\* The paths of everything on disk, folders with their trailing "/".
PathsOf ==
    [d \in DOMAIN Tree |-> {IF n.dir THEN n.path \o Slash ELSE n.path : n \in Nodes[d]}]

ExactPaths == PathsOf[disk]

\* A path without its trailing "/".
Unslashed(p) == IF EndsWithSlash(p) THEN Substring(p, 0, Len(p) - 1) ELSE p

\* The files of a disk by the spelling a case-folding filesystem compares.
FoldedFilesOf == [d \in DOMAIN Tree |-> {n.folded : n \in {m \in Nodes[d] : ~m.dir}}]

\* What the folders of a disk hold: folder, name and whether it is a folder.
EntriesOf ==
    [d \in DOMAIN Tree |->
       UNION { { [folder |-> t.path, name |-> t.entries[i].name,
                  dir |-> t.entries[i].dir] : i \in DOMAIN t.entries } :
               t \in Tree[d] }]

\* A path that is the path of a file on disk up to letter case only.
WrongCase(url) ==
    /\ url \notin ExactFiles
    /\ Fold(url) \in FoldedFilesOf[disk]

\* A path whose extension the type table maps to a MIME type.
TypedExtensions == {t.ext : t \in {u \in defineTypes : u.mime # Undefined}}

Typed(url) == Extension(url) \in TypedExtensions

\* The files on disk, spelled exactly, whose extension has a MIME type.
TypedFilesOf == [d \in DOMAIN Tree |-> {p \in FilesOf[d] : Typed(p)}]

ExactTyped == TypedFilesOf[disk]

\* C1: a request whose path differs only in letter case from a file on disk
\* never gets past checkPath and is answered 404 NotFound, also on a
\* filesystem that folds case.
C1_WrongCaseNotFound ==
    \A r \in Slots :
        LET s == slot[r]
        IN  (s.pc # "idle" /\ WrongCase(s.url)) =>
              /\ s.pc \in {"readdir", "stat", "done"}
              /\ s.resolved \in {"none", "NotFound"}
              /\ s.pc = "done" => (s.resp.code = NotFound /\ s.resp.terminal = 1)

C1_Witness ==
    \E r \in Slots :
        /\ folds /\ disk = "site"
        /\ WrongCase(slot[r].url)
        /\ slot[r].pc = "done" /\ slot[r].resp.code = NotFound

C3_CacheIsListed ==
    \A p \in paths \ {Slash} :
      \E folder \in {Parent(p)} :
      \E o \in {[folder |-> folder,
                 name |-> Substring(Unslashed(p), Len(folder), Len(Unslashed(p))),
                 dir |-> EndsWithSlash(p)]} :
        /\ folder \in paths
        /\ p \in ExactPaths
        /\ p = o.folder \o o.name \o (IF o.dir THEN Slash ELSE <<>>)
        /\ o \in observed
        /\ o \in EntriesOf[disk]

C3_Witness ==
    /\ StoriesDir \o XTxt \in paths
    /\ StoriesDir \in paths
    /\ Cardinality(paths) = 10

\* How often a folder occurs among the folders a request listed.
Count(f, seq) == Cardinality({i \in DOMAIN seq : seq[i] = f})

\* A folder all of whose entries on disk are members of the cache.
Expanded(f) ==
    \E t \in Tree[disk] :
        /\ t.path = f
        /\ \A i \in DOMAIN t.entries :
             EntryPath(f, t.entries[i].name, t.entries[i].dir) \in paths

\* C4 as stated: on a site set up as it should be, once a folder is
\* expanded, no later request, handled after the requests before it were
\* answered, lists it again.
C4_NoRelist ==
    [][\A r \in Slots :
         (/\ disk = "site"
          /\ slot[r].pc = "idle" /\ slot'[r].pc # "idle"
          /\ \A q \in Slots \ {r} : slot[q].pc \in {"idle", "done"})
         => \A f \in BagToSet(listings) :
              Expanded(f) => CopiesIn(f, listings') = CopiesIn(f, listings)]_vars

\* Two requests in flight for different files on disk, spelled exactly and of
\* a served type, in the same folder, the first of which did not find its
\* path in the cache when it arrived.
SiblingPair(r1, r2) ==
    /\ r1 # r2
    /\ slot[r1].pc # "idle" /\ slot[r2].pc # "idle"
    /\ slot[r1].url \in ExactTyped /\ slot[r2].url \in ExactTyped
    /\ slot[r1].url # slot[r2].url
    /\ Parent(slot[r1].url) = Parent(slot[r2].url)
    /\ ~slot[r1].hit

C6_CacheGrows == [][paths \subseteq paths']_vars

C6_Witness ==
    /\ Cardinality(paths) = 10
    /\ started = MaxRequests

\* C7: a request whose path is a member of the cache on arrival is resolved in
\* that same step, with no fs.readdir and no fs.stat made for it and the
\* cache left as it was, and checkPath answers true.
C7_FastPath ==
    [][\A r \in Slots :
         (slot[r].pc = "idle" /\ slot'[r].pc # "idle" /\ slot'[r].url \in paths)
         => /\ paths' = paths
            /\ listings' = listings
            /\ slot'[r].listed = <<>> /\ slot'[r].io.stat = 0
            /\ slot'[r].pc \notin {"readdir", "stat"}
            /\ slot'[r].resolved \in {"Deliverable", "UnsupportedType"}]_vars

C7_Witness ==
    \E r \in Slots :
        /\ slot[r].hit /\ slot[r].pc = "done" /\ slot[r].resp.code = OK
        /\ slot[r].url = StoriesDir \o XTxt
        /\ slot[r].listed = <<>> /\ slot[r].io.stat = 0

\* C8 as stated: a request whose extension the table refuses is always
\* answered 415 (here: on a site set up as it should be).
C8_Original ==
    \A r \in Slots :
        (disk = "site" /\ slot[r].pc = "done" /\ Extension(slot[r].url) \in Refused)
            => slot[r].resp.code = BadType

\* C8, amended: a request whose extension the table refuses is never
\* delivered: it is answered 415 UnsupportedType when its path is on disk
\* spelled exactly so, and 404 NotFound when it is not.
C8_RefusedNeverServed ==
    \A r \in Slots :
        LET s == slot[r]
        IN  (s.pc # "idle" /\ Extension(s.url) \in Refused) =>
              /\ s.pc \in {"readdir", "stat", "done"}
              /\ s.handler = "none"
              /\ s.pc = "done" =>
                   /\ s.resp.terminal = 1
                   /\ s.resp.code = (IF s.url \in ExactFiles THEN BadType ELSE NotFound)

C8_Witness ==
    \E r \in Slots :
        /\ slot[r].url = StoriesDir \o NDoc
        /\ slot[r].pc = "done" /\ slot[r].resp.code = BadType

\* C9 as stated: once the server listens, a request for "/" is answered 200
\* with the index document, after one listing of the root at most.
C9_RootServed ==
    \A r \in Slots :
        (slot[r].raw = Slash /\ slot[r].pc \in {"done", "rejected"}) =>
            /\ slot[r].url = Slash \o IndexHtml
            /\ slot[r].pc = "done" /\ slot[r].resp.code = OK
            /\ Len(slot[r].listed) <= 1
            /\ slot[r].hit => slot[r].listed = <<>>

\* C10: no response gets more than one terminal call (deliver or fail), and
\* nothing is written to a response after its terminal call.
C10_OneTerminalCall ==
    \A r \in Slots :
        /\ slot[r].resp.terminal <= 1
        /\ slot[r].resp.late = 0
        /\ slot[r].resp.ended => slot[r].resp.terminal = 1
        /\ slot[r].pc = "done" => slot[r].resp.ended

C10_Witness ==
    \E r \in Slots :
        /\ slot[r].handler = "get_categories"
        /\ slot[r].pc = "done" /\ slot[r].resp.terminal = 1
        /\ slot[r].resp.code = Error

\* C11 as stated: no error escapes handle or its event callbacks: a POST,
\* whatever its form body holds or lacks, neither ends the process on an
\* uncaught exception nor is left unanswered by a handler that rejected.
C11_NoErrorEscapes ==
    \A r \in Slots :
        slot[r].method = "POST" => (phase # "crashed" /\ slot[r].pc # "rejected")

\* The handlers a POST and a GET with a query are routed to, with the
\* functions they go on to call.
PostHandlers == {"handle_post", "insert_message_into_db"}
GetHandlers  == {"handle_get", "get_categories", "get_categories_data"}

\* Whether a body holds bytes of a file.
HoldsFile(body) == \E i \in DOMAIN body : body[i].file # <<>>

\* C12: of a request that reaches the dispatch of handle (its path resolved
\* and findType gave it a type), a POST with a query goes to handle_post, a
\* GET with a query and without "stories" in its path goes to handle_get, and
\* then no file is read or delivered for it; every other one (no query,
\* another method, a GET with "stories" in its path) goes to file delivery.
\* A request that does not reach the dispatch has no handler.
C12_Dispatch ==
    \A r \in Slots :
        LET s    == slot[r]
            post == s.method = "POST" /\ s.params # <<>>
            get  == s.method = "GET" /\ s.params # <<>> /\ ~Includes(s.url, Stories)
        IN  IF s.resolved # "Deliverable" THEN s.handler = "none"
            ELSE /\ post => s.handler \in PostHandlers
                 /\ (~post /\ get) => s.handler \in GetHandlers
                 /\ (~post /\ ~get) => s.handler = "file"
                 /\ (post \/ get) => (s.io.readFile = 0 /\ ~HoldsFile(s.resp.body))

C12_Witness ==
    \E r \in Slots :
        /\ slot[r].method = "GET" /\ slot[r].params = Categories
        /\ slot[r].url = Slash \o About \o Slash \o IndexHtml
        /\ slot[r].handler = "get_categories"
        /\ slot[r].pc = "done" /\ slot[r].resp.code = OK
        /\ slot[r].io.readFile = 0

\* A path no file or folder on disk has, in whatever letter case.
Absent(url) == \A n \in Nodes[disk] : n.folded # Fold(url)

\* The one response handle gives for a path checkPath does not resolve.
NotFoundResponse == fail(NewResponse, NotFound, "URL not found (check case)")

\* C13: a request for a path that is on disk in another letter case and a
\* request for a path that is not on disk at all get the same response, one
\* that depends on nothing of the disk: status 404, Content-Type text/plain,
\* the same body.  So on two disks that differ only in that file (site and
\* bare, for /stories/X.txt) the responses are identical.
C13_SameNotFound ==
    \A r \in Slots :
        LET s == slot[r]
        IN  (s.pc # "idle" /\ (WrongCase(s.url) \/ Absent(s.url))) =>
              /\ s.pc \in {"readdir", "stat", "done"}
              /\ s.pc = "done" => s.resp = NotFoundResponse

C13_Witness ==
    \E r \in Slots :
        /\ disk = "bare" /\ slot[r].url = StoriesDir \o XTxtUp
        /\ Absent(slot[r].url)
        /\ slot[r].pc = "done" /\ slot[r].resp = NotFoundResponse

\* What start() checks before it listens.
SiteChecked ==
    /\ stories_list # <<>>
    /\ Access(disk, folds, root)
    /\ Access(disk, folds, root \o Slash \o IndexHtml)

\* C14: the server listens only when the stories list loaded non-empty and
\* fs.access found the root folder and its index document; otherwise it has
\* exited (process.exit(1)), has handled no request and never listens later.
\* Whenever a request is being handled, the type table is built and "/" is a
\* member of the cache.
C14_ListensOnlyChecked ==
    /\ [](/\ phase \in {"listening", "crashed"} => SiteChecked
          /\ phase = "exited" => ~SiteChecked
          /\ phase \in {"booting", "exited"} =>
               (started = 0 /\ \A r \in Slots : slot[r] = Idle)
          /\ \A r \in Slots :
               slot[r].pc # "idle" => (types = defineTypes /\ Slash \in paths))
    /\ [][phase = "exited" => phase' = "exited"]_vars

C14_Witness ==
    /\ phase = "exited"
    /\ disk = "site" /\ stories_list = <<>>
    /\ Access(disk, folds, root \o Slash \o IndexHtml)

\* C15 as stated: for every path handed to checkPath the recursion over the
\* parents ends: each call is on a strictly shorter parent down to "/", and
\* checkPath returns true or false; no request ends in a call stack that
\* overflowed.
C15_CheckPathReturns ==
    \A r \in Slots :
        slot[r].pc # "idle" =>
            /\ slot[r].resolved # "RangeError"
            /\ \A i \in DOMAIN slot[r].frames :
                 Len(Parent(slot[r].frames[i])) < Len(slot[r].frames[i])

\* C16 as stated: a request whose path resolved and whose extension, whatever
\* its text, is no key of the type table that maps to a MIME type is answered
\* 415 UnsupportedType, and its file is neither read nor delivered.
C16_UntypedRefused ==
    \A r \in Slots :
        LET s == slot[r]
        IN  (s.resolved \notin {"none", "NotFound", "RangeError"} /\ ~Typed(s.url)) =>
              /\ s.resolved = "UnsupportedType"
              /\ s.io.readFile = 0 /\ ~HoldsFile(s.resp.body)
              /\ s.pc = "done" /\ s.resp.code = BadType

\* What addContents(folder) adds when it runs to its end: one expansion.
Children(d, foldsCase, folder) ==
    LET res == Readdir(d, foldsCase, root \o folder)
    IN  { EntryPath(folder, res.names[i],
                    Stat(d, foldsCase, root \o folder \o res.names[i]).dir) :
            i \in DOMAIN res.names }

\* The folders of the disks, and one expansion of each.
Folders == {t.path : t \in UNION {Tree[d] : d \in DOMAIN Tree}}

ChildrenOf ==
    [d \in DOMAIN Tree, foldsCase \in BOOLEAN, folder \in Folders |->
       Children(d, foldsCase, folder)]

\* checkPath run alone, with no other request in flight, from the pending
\* frames on: whether it returns true.
RECURSIVE AloneFrom(_, _, _, _)
AloneFrom(d, foldsCase, frames, cache) ==
    LET added == cache \cup Children(d, foldsCase, Parent(frames[1]))
        u     == Unwind(frames, added)
    IN  IF u.done THEN u.ok ELSE AloneFrom(d, foldsCase, u.frames, added)

\* The paths the requests of the model ask checkPath for.
AskedUrls == {WithIndex(SplitUrl(q.raw).url) : q \in Requests \cup TwinRequests}

\* checkPath(url) run alone against the disk, from the cache start() leaves.
Alone ==
    [d \in DOMAIN Tree, foldsCase \in BOOLEAN, url \in AskedUrls |->
       LET down == Descend(url, {Slash})
       IN  IF down.overflow THEN FALSE
           ELSE IF down.frames = <<>> THEN url \in {Slash}
           ELSE AloneFrom(d, foldsCase, down.frames, {Slash})]

\* No request is between its arrival and its answer.
Quiet == \A r \in Slots : slot[r].pc \in {"idle", "done", "rejected"}

\* C17: under every interleaving of concurrent resolutions, the cache holds
\* "/" and entries of the folders listed and nothing else, however often a
\* folder was listed; once the resolutions have ended it equals the cache
\* one expansion of each of those folders gives; no insertion fails; and each
\* resolution returns what it returns when run alone against the same disk.
C17_DuplicateExpansion ==
    LET once == {Slash} \cup
                UNION {ChildrenOf[disk, folds, f] : f \in BagToSet(listings)}
    IN  /\ paths # {} => (Slash \in paths /\ paths \subseteq once)
        /\ (Quiet /\ paths # {}) => paths = once
        /\ \A r \in Slots :
             LET s == slot[r]
             IN  /\ s.pc = "rejected" => s.resolved = "RangeError"
                 /\ s.resolved \in {"NotFound", "UnsupportedType", "Deliverable"} =>
                      (s.resolved # "NotFound") = Alone[disk, folds, s.url]

C17_Witness ==
    /\ CopiesIn(StoriesDir, listings) >= 2
    /\ \E r1, r2 \in Slots :
         /\ r1 # r2
         /\ slot[r1].url = StoriesDir \o XTxt /\ slot[r2].url = StoriesDir \o YTxt
         /\ ~slot[r1].hit /\ ~slot[r2].hit
         /\ slot[r1].pc = "done" /\ slot[r2].pc = "done"
         /\ slot[r1].resp.code = OK /\ slot[r2].resp.code = OK

\* C18: every member of the cache starts with "/" and names something on
\* disk, and it ends with "/" exactly when that is a folder.  So a request
\* path ending in "/" that points at a file never resolves: it is answered
\* 404.
C18_SlashIffFolder ==
    /\ \A p \in paths :
         /\ Len(p) > 0 /\ p[1] = "/"
         /\ \E u \in {Unslashed(p)} :
              [path |-> u, dir |-> EndsWithSlash(p), folded |-> Fold(u)] \in Nodes[disk]
    /\ \A r \in Slots :
         LET s == slot[r]
         IN  (s.pc # "idle" /\ EndsWithSlash(s.raw) /\ Unslashed(s.raw) \in ExactFiles) =>
               /\ s.url \notin paths
               /\ s.pc \in {"readdir", "stat", "done"}
               /\ s.pc = "done" => (s.resolved = "NotFound" /\ s.resp.code = NotFound)

C18_Witness ==
    \E r \in Slots :
        /\ slot[r].raw = StoriesDir \o XTxt \o Slash
        /\ StoriesDir \o XTxt \in paths /\ StoriesDir \in paths
        /\ slot[r].pc = "done" /\ slot[r].resp.code = NotFound

C20_HandlersGated ==
    \A r \in Slots :
        LET s == slot[r]
        IN  /\ s.handler \in PostHandlers \cup GetHandlers =>
                 (s.url \in paths /\ Typed(s.url))
            /\ (s.pc = "done" /\ s.params # <<>> /\ s.method \in {"POST", "GET"}
                  /\ ~(s.url \in paths /\ Typed(s.url))) =>
                 /\ s.handler = "none"
                 /\ s.resp.code = (IF s.url \in paths THEN BadType ELSE NotFound)

====
